---- MODULE Spec2Model ----
(***************************************************************************)
(* A state-machine model of app.py (Office_Assistant): the session-held    *)
(* Graph token and the calendar/mail proxy, the record store handlers, the *)
(* brief parser of generate_brief and the read-then-write races of the     *)
(* singleton tables.                                                       *)
(*                                                                         *)
(* Text is modelled as a sequence of tokens (one-character strings and     *)
(* whole marker words), Python None as the record field present = FALSE    *)
(* or the token NoneVal, an absent JSON key as the token Absent.           *)
(***************************************************************************)
EXTENDS Integers, Sequences, FiniteSets, TLC

VARIABLES
    config,         \* server configuration: whether GEMINI_API_KEY is set
    session,        \* flask session: state, ms_graph_token
    request,        \* the request last handled by the proxy endpoints
    response,       \* the HTTP response of the request last handled
    graph,          \* what _make_graph_api_call did for that request
    window,         \* the time window the request computed
    hours_arg,      \* the hours query parameter this client sends
    mailbox,        \* the messages the provider holds for the window asked
    model_calls,    \* the model calls of that request: the message id and what the model did
    priority,       \* table Priority: a set of rows
    project,        \* table Project
    meeting,        \* table Meeting
    call,           \* the record-store request last handled
    reply,          \* its HTTP response
    seeding,        \* history: whether the default projects were inserted, and again
    protocol,       \* table Protocol
    time_split,     \* table TimeSplit
    daily_brief,    \* table DailyBrief
    inflight,       \* per worker: the request it is handling, between lookup and commit
    learning_memory, \* table LearningMemory
    model_reply,    \* what the language model answers to the briefing prompt
    synth           \* the response of /api/generate_brief last given

proxyVars == <<config, session, request, response, graph, window, hours_arg, mailbox,
               model_calls>>

singleVars == <<protocol, time_split, daily_brief, inflight>>

synthVars == <<learning_memory, model_reply, synth>>

crudVars == <<priority, project, meeting, call, reply, seeding, singleVars>>

vars == <<config, session, request, response, graph, window, hours_arg, mailbox, model_calls,
          priority, project, meeting, call, reply, seeding,
          protocol, time_split, daily_brief, inflight, learning_memory,
          model_reply, synth>>

----------------------------------------------------------------------------
(* Bounds of the model.                                                    *)

MaxHoursLen == 3
MaxPriorityId == 2
MaxProjectId == 3
MaxMeetingId == 1
MaxMemoryId == 3

----------------------------------------------------------------------------
(* Text helpers: Python str methods on token sequences.                    *)

NoneVal == "<None>"
Absent == "<absent>"

Max(a, b) == IF a >= b THEN a ELSE b
Min(a, b) == IF a <= b THEN a ELSE b

RECURSIVE SeqsUpTo(_, _)
SeqsUpTo(S, n) ==
    IF n = 0 THEN {<<>>}
    ELSE LET shorter == SeqsUpTo(S, n - 1)
         IN  shorter \cup {Append(s, c) : s \in shorter, c \in S}

IsSpace(c) == c \in {" ", "\n"}

RECURSIVE LStrip(_)
LStrip(s) == IF s # <<>> /\ IsSpace(Head(s)) THEN LStrip(Tail(s)) ELSE s

RECURSIVE RStrip(_)
RStrip(s) ==
    IF s # <<>> /\ IsSpace(s[Len(s)]) THEN RStrip(SubSeq(s, 1, Len(s) - 1)) ELSE s

\* str.strip()
Strip(s) == RStrip(LStrip(s))

----------------------------------------------------------------------------
(* The trailing-hours window: int(hours_param) clamped to [1, 168].        *)

HourChars == {"-", " ", "0", "1", "6", "x"}
HourDigits == {"0", "1", "6"}

DigitVal(c) == CASE c = "0" -> 0 [] c = "1" -> 1 [] c = "6" -> 6

RECURSIVE DigitsVal(_)
DigitsVal(s) ==
    IF s = <<>> THEN 0
    ELSE 10 * DigitsVal(SubSeq(s, 1, Len(s) - 1)) + DigitVal(s[Len(s)])

AllDigits(s) == s # <<>> /\ \A i \in 1..Len(s) : s[i] \in HourDigits

\* int(str): surrounding whitespace is dropped, one optional sign, then digits;
\* anything else raises ValueError (ok = FALSE).
PyInt(s) ==
    LET t == Strip(s)
        neg == t # <<>> /\ Head(t) = "-"
        body == IF neg THEN Tail(t) ELSE t
    IN  IF AllDigits(body)
        THEN [ok |-> TRUE, val |-> IF neg THEN 0 - DigitsVal(body) ELSE DigitsVal(body)]
        ELSE [ok |-> FALSE, val |-> 0]

HoursLow == 1
HoursHigh == 168
HoursDefault == 24

\* A bug that clamps only from above.
EffectiveHoursNoFloor(hours_param) ==
    LET n == PyInt(hours_param)
    IN  IF n.ok THEN Min(HoursHigh, n.val) ELSE HoursDefault

\* try: hours = max(1, min(168, int(hours_param))) except ValueError: hours = 24
EffectiveHours(hours_param) ==
    LET n == PyInt(hours_param)
    IN  IF n.ok THEN Max(HoursLow, Min(HoursHigh, n.val)) ELSE HoursDefault

\* datetime.fromisoformat(s).date(): the calendar day of the strings the model
\* sends; any other string raises ValueError.
IsoDay(s) ==
    CASE s = "2024-01-01" -> 1
      [] s = "2024-01-01T09:30" -> 1
      [] s = "2024-01-02" -> 2
      [] OTHER -> 0

IsoOk(s) == IsoDay(s) # 0

\* datetime.now(tz).date()
Today == 1

NoWindow == [kind |-> "none", hours |-> 0, day |-> 0]

\* Lines 238-251 and 279-289: the window of a request. hours_param and
\* date_str are [present, val]; an empty hours value is falsy and selects the
\* day window. kind "error" is the ValueError of fromisoformat, unhandled.
RequestWindow(hours_param, date_str) ==
    IF hours_param.present /\ hours_param.val # <<>>
    THEN [kind |-> "trailing", hours |-> EffectiveHours(hours_param.val), day |-> 0]
    ELSE IF date_str.present /\ date_str.val # ""
         THEN IF IsoOk(date_str.val)
              THEN [kind |-> "day", hours |-> 0, day |-> IsoDay(date_str.val)]
              ELSE [kind |-> "error", hours |-> 0, day |-> 0]
         ELSE [kind |-> "day", hours |-> 0, day |-> Today]

----------------------------------------------------------------------------
(* The session-held token and the Graph proxy primitive.                   *)

NoToken == [present |-> FALSE, access_token |-> ""]
NoData == [present |-> FALSE, value |-> <<>>]
NoError == [present |-> FALSE, val |-> ""]

\* Python truthiness of the error member of the (data, status, error) result.
Truthy(error) == error.present /\ error.val # ""

\* _get_token_from_cache
GetTokenFromCache(sess) == sess.ms_graph_token

\* A bug that issues the request without looking at the token.
MakeGraphApiCallNoTokenCheck(token, up) ==
    IF up.status_code = 200
    THEN [data |-> [present |-> TRUE, value |-> up.json], status |-> 200,
          error |-> NoError, outbound |-> 1]
    ELSE [data |-> NoData, status |-> up.status_code,
          error |-> [present |-> TRUE, val |-> up.text], outbound |-> 1]

\* _make_graph_api_call: up is the answer the provider would give; outbound
\* counts the requests.get calls made.
MakeGraphApiCall(token, up) ==
    IF ~token.present
    THEN [data |-> NoData, status |-> 401,
          error |-> [present |-> TRUE, val |-> "User not authenticated."],
          outbound |-> 0]
    ELSE IF up.status_code = 200
         THEN [data |-> [present |-> TRUE, value |-> up.json], status |-> 200,
               error |-> NoError, outbound |-> 1]
         ELSE [data |-> NoData, status |-> up.status_code,
               error |-> [present |-> TRUE, val |-> up.text], outbound |-> 1]

NoGraph == [called |-> FALSE, had_token |-> FALSE, outbound |-> 0,
            upstream_status |-> 0, upstream_text |-> ""]

GraphOf(token, up, r) ==
    [called |-> TRUE, had_token |-> token.present, outbound |-> r.outbound,
     upstream_status |-> IF r.outbound > 0 THEN up.status_code ELSE 0,
     upstream_text |-> IF r.outbound > 0 THEN up.text ELSE ""]

NoArg == [present |-> FALSE, val |-> ""]
NoSeqArg == [present |-> FALSE, val |-> <<>>]

Resp(status, kind, error, data) ==
    [status |-> status, kind |-> kind, error |-> error, data |-> data,
     snapshot |-> <<>>, items |-> <<>>]

\* if error: return jsonify({"error": error}), status; return jsonify(data)
PassThrough(r) ==
    IF Truthy(r.error)
    THEN Resp(r.status, "error", r.error.val, NoData)
    ELSE Resp(200, "json", "", r.data)

Unhandled == Resp(500, "exception", "", NoData)

\* GET /api/outlook/events
GetEvents(hours_param, date_str, up) ==
    LET w == RequestWindow(hours_param, date_str)
        token == GetTokenFromCache(session)
        r == MakeGraphApiCall(token, up)
    IN  /\ request' = [endpoint |-> "events", hours |-> hours_param,
                       date |-> date_str, id |-> NoArg]
        /\ window' = w
        /\ IF w.kind = "error"
           THEN /\ response' = Unhandled
                /\ graph' = NoGraph
           ELSE /\ response' = PassThrough(r)
                /\ graph' = GraphOf(token, up, r)
        /\ model_calls' = <<>>
        /\ UNCHANGED <<config, session, hours_arg, mailbox, crudVars, synthVars>>

\* GET /api/outlook/mails
GetMails(up) ==
    LET token == GetTokenFromCache(session)
        r == MakeGraphApiCall(token, up)
    IN  /\ request' = [endpoint |-> "mails", hours |-> NoSeqArg,
                       date |-> NoArg, id |-> NoArg]
        /\ window' = NoWindow
        /\ response' = PassThrough(r)
        /\ graph' = GraphOf(token, up, r)
        /\ model_calls' = <<>>
        /\ UNCHANGED <<config, session, hours_arg, mailbox, crudVars, synthVars>>

\* GET /api/outlook/message?id=...
GetMessageById(msg_id, up) ==
    LET token == GetTokenFromCache(session)
        r == MakeGraphApiCall(token, up)
    IN  /\ request' = [endpoint |-> "message", hours |-> NoSeqArg,
                       date |-> NoArg, id |-> msg_id]
        /\ window' = NoWindow
        /\ IF ~msg_id.present \/ msg_id.val = ""
           THEN /\ response' = Resp(400, "error", "Missing id", NoData)
                /\ graph' = NoGraph
           ELSE /\ response' = PassThrough(r)
                /\ graph' = GraphOf(token, up, r)
        /\ model_calls' = <<>>
        /\ UNCHANGED <<config, session, hours_arg, mailbox, crudVars, synthVars>>

\* GET /api/outlook/status
OutlookStatus ==
    /\ request' = [endpoint |-> "status", hours |-> NoSeqArg,
                   date |-> NoArg, id |-> NoArg]
    /\ window' = NoWindow
    /\ response' = Resp(200, IF GetTokenFromCache(session).present
                             THEN "connected" ELSE "disconnected", "", NoData)
    /\ graph' = NoGraph
    /\ model_calls' = <<>>
    /\ UNCHANGED <<config, session, hours_arg, mailbox, crudVars, synthVars>>

----------------------------------------------------------------------------
(* The inbox snapshot: one model call per message with a subject.          *)

NoneSeq == <<NoneVal>>

\* (x or '')
OrEmpty(x) == IF x = NoneSeq THEN <<>> ELSE x

\* str.replace('\n', ' ')
ReplaceNewlines(s) == [i \in 1..Len(s) |-> IF s[i] = "\n" THEN " " ELSE s[i]]

PreviewLimit == 160

\* s[:n]
Prefix(s, n) == SubSeq(s, 1, Min(n, Len(s)))

\* Lines 311-319: the received time in IST, or the raw string when it does
\* not parse.
WhenStr(when_raw) ==
    CASE when_raw = "2024-01-01T10:00:00Z" -> "2024-01-01 03:30 PM"
      [] when_raw = "2024-01-01T10:00:00" -> "2024-01-01 03:30 PM"
      [] when_raw = "2024-01-01T10:00:00+05:30" -> "2024-01-01 10:00 AM"
      [] OTHER -> when_raw

\* f"{subject} (em dash) {one_line} ({sender_name}, {when_str})"; the dash is
\* the token " -- "
DigestLine(subject, one_line, sender_name, when_str) ==
    subject \o <<" -- ">> \o one_line \o <<" (">> \o sender_name \o <<", ", when_str, ")">>

\* A handler that leaves the summary empty when the model call raises.
OneLineEmptyOnRaise(preview, outcome) ==
    IF outcome.kind = "raise"
    THEN <<>>
    ELSE LET one_line == Strip(OrEmpty(outcome.text))
         IN  IF one_line = <<>> THEN Strip(Prefix(preview, PreviewLimit)) ELSE one_line

\* Lines 329-351 for one message: outcome is what model.generate_content does.
OneLine(preview, outcome) ==
    IF outcome.kind = "raise"
    THEN Strip(Prefix(preview, PreviewLimit))
    ELSE LET one_line == Strip(OrEmpty(outcome.text))
         IN  IF one_line = <<>> THEN Strip(Prefix(preview, PreviewLimit)) ELSE one_line

\* Lines 304-351: the loop over the messages from index i on. ok = FALSE is an
\* exception that leaves the loop for the outer handler.
RECURSIVE SummarizeFrom(_, _, _)
SummarizeFrom(messages, outcomes, i) ==
    IF i > Len(messages)
    THEN [ok |-> TRUE, lines |-> <<>>, items |-> <<>>, calls |-> <<>>]
    ELSE LET m == messages[i]
             subject == Strip(OrEmpty(m.subject))
             preview == ReplaceNewlines(Strip(OrEmpty(m.bodyPreview)))
             sender_name == Strip(OrEmpty(m.sender))
             msg_id == m.id
             when_str == WhenStr(m.receivedDateTime)
             rest == SummarizeFrom(messages, outcomes, i + 1)
         IN  IF m.from_null
             THEN [ok |-> FALSE, lines |-> <<>>, items |-> <<>>, calls |-> <<>>]
             ELSE IF subject = <<>>
                  THEN rest
                  ELSE LET one_line == OneLine(preview, outcomes[i])
                       IN  [ok |-> rest.ok,
                            lines |-> <<DigestLine(subject, one_line, sender_name, when_str)>>
                                      \o rest.lines,
                            items |-> <<[id |-> msg_id, subject |-> subject,
                                         sender |-> sender_name, received |-> when_str,
                                         summary |-> one_line]>> \o rest.items,
                            calls |-> <<[id |-> msg_id, outcome |-> outcomes[i]]>> \o rest.calls]

\* "\n".join(lines)
RECURSIVE JoinLines(_)
JoinLines(lines) ==
    IF lines = <<>> THEN <<>>
    ELSE IF Len(lines) = 1 THEN lines[1]
         ELSE lines[1] \o <<"\n">> \o JoinLines(Tail(lines))

\* POST /api/inbox/snapshot
InboxSnapshot(hours_param, up, outcomes) ==
    LET w == RequestWindow(hours_param, NoArg)
        token == GetTokenFromCache(session)
        r == MakeGraphApiCall(token, up)
        messages == IF r.data.present THEN r.data.value ELSE <<>>
        sum == SummarizeFrom(messages, outcomes, 1)
    IN  /\ request' = [endpoint |-> "snapshot", hours |-> hours_param,
                       date |-> NoArg, id |-> NoArg]
        /\ IF ~config.gemini_key
           THEN /\ response' = Resp(500, "error",
                                    "GEMINI_API_KEY is not configured on the server.", NoData)
                /\ graph' = NoGraph
                /\ window' = NoWindow
           ELSE /\ window' = w
                /\ graph' = GraphOf(token, up, r)
                /\ response' =
                     IF Truthy(r.error)
                     THEN Resp(r.status, "error", r.error.val, NoData)
                     ELSE IF ~sum.ok
                          THEN Resp(500, "error", "AI summarization failed", NoData)
                          ELSE [status |-> 200, kind |-> "snapshot", error |-> "",
                                data |-> NoData, snapshot |-> JoinLines(sum.lines),
                                items |-> sum.items]
        /\ model_calls' = IF config.gemini_key /\ ~Truthy(r.error) THEN sum.calls ELSE <<>>
        /\ UNCHANGED <<config, session, hours_arg, mailbox, crudVars, synthVars>>

----------------------------------------------------------------------------
(* The OAuth round trip that puts the token into the session.              *)

\* GET /api/outlook/auth: u is the uuid4 drawn.
Auth(u) ==
    /\ session' = [session EXCEPT !.state = [present |-> TRUE, val |-> u]]
    /\ request' = [endpoint |-> "auth", hours |-> NoSeqArg, date |-> NoArg, id |-> NoArg]
    /\ response' = Resp(302, "redirect", "", NoData)
    /\ graph' = NoGraph
    /\ window' = NoWindow
    /\ model_calls' = <<>>
    /\ UNCHANGED <<config, hours_arg, mailbox, crudVars, synthVars>>

\* GET /api/outlook/callback: args are the query parameters, result is what
\* acquire_token_by_authorization_code returns for the code; the request
\* record keeps both.
Callback(args, result) ==
    LET stored ==
            args.state = session.state
            /\ ~args.has_error
            /\ args.code.present /\ args.code.val # ""
            /\ result.access_token # ""
    IN  /\ session' = IF stored
                      THEN [session EXCEPT !.ms_graph_token =
                               [present |-> TRUE, access_token |-> result.access_token]]
                      ELSE session
        /\ request' = [endpoint |-> "callback", hours |-> NoSeqArg,
                       date |-> NoArg, id |-> NoArg, args |-> args, result |-> result]
        /\ response' =
             IF args.state # session.state
             THEN Resp(400, "text", "State does not match.", NoData)
             ELSE IF args.has_error
                  THEN Resp(400, "text", "Error", NoData)
                  ELSE IF stored
                       THEN Resp(302, "redirect", "", NoData)
                       ELSE Resp(400, "text", "Authentication failed.", NoData)
        /\ graph' = NoGraph
        /\ window' = NoWindow
        /\ model_calls' = <<>>
        /\ UNCHANGED <<config, hours_arg, mailbox, crudVars, synthVars>>

----------------------------------------------------------------------------
(* The record store: tables are sets of rows keyed by an integer id.       *)

Ids(rows) == {r.id : r \in rows}

MaxOf(S) == CHOOSE x \in S : \A y \in S : y <= x

\* The id SQLite gives an inserted row of an INTEGER PRIMARY KEY table: one
\* more than the largest id present.
NextId(rows) == IF rows = {} THEN 1 ELSE MaxOf(Ids(rows)) + 1

RowOf(rows, id) == CHOOSE r \in rows : r.id = id

\* request.get_json(): kind "none" is a missing body (None), "object" a JSON
\* object whose keys are the fields of the record fields, "list" a JSON array
\* with one element.
NoFields == [k \in {} |-> ""]
NoBody == [kind |-> "none", fields |-> NoFields]
ListBody == [kind |-> "list", fields |-> NoFields]
Obj(fields) == [kind |-> "object", fields |-> fields]

\* key in data
Has(body, k) == k \in DOMAIN body.fields

\* data.get(key, default)
DictGet(body, k, default) == IF Has(body, k) THEN body.fields[k] ELSE default

\* data.get(key): None when the key is absent
DictGetOrNone(body, k) == DictGet(body, k, NoneVal)

\* Python truthiness of data.get(key) for a string value
TruthyText(body, k) == Has(body, k) /\ body.fields[k] \notin {NoneVal, ""}

\* not data: None and the empty object are falsy
NotData(body) ==
    \/ body.kind = "none"
    \/ body.kind = "object" /\ DOMAIN body.fields = {}

NoCall == [name |-> "none", id |-> 0, body |-> NoBody, repeat |-> FALSE, found |-> 0]
NoReply == [status |-> 0, kind |-> "none", rows |-> {}, seeded |-> FALSE]

Reply(status, kind, rows) == [status |-> status, kind |-> kind, rows |-> rows, seeded |-> FALSE]

Call(name, id, body) ==
    [name |-> name, id |-> id, body |-> body, repeat |-> FALSE, found |-> 0]

\* The previous request was this same DELETE and it deleted the row.
Repeated(name, id) == call.name = name /\ call.id = id /\ reply.status = 200

\* GET /api/priorities
GetPriorities ==
    /\ call' = Call("priorities.get", 0, NoBody)
    /\ reply' = Reply(200, "list", priority)
    /\ UNCHANGED <<priority, project, meeting, seeding, proxyVars, singleVars, synthVars>>

\* A bug that checks only that the text key exists.
PriorityRejectedKeyOnly(body) == NotData(body) \/ ~Has(body, "text")

\* if not data or not data.get('text')
PriorityRejected(body) == NotData(body) \/ ~TruthyText(body, "text")

\* POST /api/priorities
PostPriorities(body) ==
    /\ call' = Call("priorities.post", 0, body)
    /\ IF body.kind = "list"
       THEN \* data.get raises AttributeError
            /\ reply' = Reply(500, "exception", {})
            /\ UNCHANGED priority
       ELSE IF PriorityRejected(body)
            THEN /\ reply' = Reply(400, "error", {})
                 /\ UNCHANGED priority
            ELSE LET new_priority == [id |-> NextId(priority), text |-> body.fields.text]
                 IN  /\ priority' = priority \cup {new_priority}
                     /\ reply' = Reply(201, "row", {new_priority})
    /\ UNCHANGED <<project, meeting, seeding, proxyVars, singleVars, synthVars>>

\* A bug that answers a missing row with the unhandled-exception status.
LookupStatus500(rows, id) == IF id \in Ids(rows) THEN 200 ELSE 500

\* Model.query.get_or_404(id): the status the lookup leads to
LookupStatus(rows, id) == IF id \in Ids(rows) THEN 200 ELSE 404

\* DELETE /api/priorities/<id>
DeletePriority(priority_id) ==
    /\ call' = [Call("priorities.delete", priority_id, NoBody)
                  EXCEPT !.repeat = Repeated("priorities.delete", priority_id)]
    /\ IF LookupStatus(priority, priority_id) # 200
       THEN /\ reply' = Reply(LookupStatus(priority, priority_id), "error", {})
            /\ UNCHANGED priority
       ELSE /\ priority' = priority \ {RowOf(priority, priority_id)}
            /\ reply' = Reply(200, "message", {})
    /\ UNCHANGED <<project, meeting, seeding, proxyVars, singleVars, synthVars>>

ProjectRow(id, name, health, risk, action) ==
    [id |-> id, name |-> name, health |-> health, risk |-> risk, action |-> action]

\* The three default projects of handle_projects, with the ids a bulk insert
\* into rows gives them.
DefaultProjects(rows) ==
    LET n == NextId(rows)
    IN  {ProjectRow(n, "PPL 5th Evaporator", 62, "Delay: condenser delivery",
                    "Escalate vendor; recover 7 days via parallel E&I"),
         ProjectRow(n + 1, "Alkali Scrubber SAP-A/B", 78, "None major",
                    "Lock FAT date; update drawings rev-C"),
         ProjectRow(n + 2, "TG-4 (23 MW)", 54, "Civils lagging 2 weeks",
                    "Add 2nd crew; weekend shift")}

\* A bug that never seeds a second time.
NeedsSeedOnce(rows) == rows = {} /\ ~seeding.done

\* A bug that seeds on every read.
NeedsSeedAlways(rows) == TRUE

\* if not projects
NeedsSeed(rows) == rows = {}

\* GET /api/projects
GetProjects ==
    /\ call' = Call("projects.get", 0, NoBody)
    /\ IF NeedsSeed(project)
       THEN /\ project' = project \cup DefaultProjects(project)
            /\ reply' = [Reply(200, "list", project') EXCEPT !.seeded = TRUE]
            /\ seeding' = [done |-> TRUE, again |-> seeding.done]
       ELSE /\ reply' = Reply(200, "list", project)
            /\ UNCHANGED <<project, seeding>>
    /\ UNCHANGED <<priority, meeting, proxyVars, singleVars, synthVars>>

\* POST /api/projects
PostProjects ==
    LET new_project == ProjectRow(NextId(project), "New Project", 75, "N/A", "Define next steps")
    IN  /\ call' = Call("projects.post", 0, NoBody)
        /\ project' = project \cup {new_project}
        /\ reply' = Reply(201, "row", {new_project})
        /\ UNCHANGED <<priority, meeting, seeding, proxyVars, singleVars, synthVars>>

\* PUT /api/projects/<id>
PutProject(project_id, body) ==
    /\ call' = Call("projects.put", project_id, body)
    /\ IF LookupStatus(project, project_id) # 200
       THEN /\ reply' = Reply(LookupStatus(project, project_id), "error", {})
            /\ UNCHANGED project
       ELSE IF body.kind # "object"
            THEN \* data.get raises on None and on a list
                 /\ reply' = Reply(500, "exception", {})
                 /\ UNCHANGED project
            ELSE LET old == RowOf(project, project_id)
                     new == ProjectRow(old.id,
                                       DictGet(body, "name", old.name),
                                       DictGet(body, "health", old.health),
                                       DictGet(body, "risk", old.risk),
                                       DictGet(body, "action", old.action))
                 IN  /\ project' = (project \ {old}) \cup {new}
                     /\ reply' = Reply(200, "row", {new})
    /\ UNCHANGED <<priority, meeting, seeding, proxyVars, singleVars, synthVars>>

\* DELETE /api/projects/<id>
DeleteProject(project_id) ==
    /\ call' = [Call("projects.delete", project_id, NoBody)
                  EXCEPT !.repeat = Repeated("projects.delete", project_id)]
    /\ IF LookupStatus(project, project_id) # 200
       THEN /\ reply' = Reply(LookupStatus(project, project_id), "error", {})
            /\ UNCHANGED project
       ELSE /\ project' = project \ {RowOf(project, project_id)}
            /\ reply' = Reply(200, "message", {})
    /\ UNCHANGED <<priority, meeting, seeding, proxyVars, singleVars, synthVars>>

MeetingRow(id, time, title, location, brief, critical, date) ==
    [id |-> id, time |-> time, title |-> title, location |-> location,
     brief |-> brief, critical |-> critical, date |-> date]

TodayIso == "2024-01-01"

\* GET /api/meetings?date=...
GetMeetings(date_str) ==
    LET d == IF date_str.present THEN date_str.val ELSE TodayIso
    IN  /\ call' = Call("meetings.get", 0, NoBody)
        /\ reply' = IF IsoOk(d)
                    THEN Reply(200, "list", {m \in meeting : m.date = IsoDay(d)})
                    ELSE Reply(500, "exception", {})
        /\ UNCHANGED <<priority, project, meeting, seeding, proxyVars, singleVars, synthVars>>

\* POST /api/meetings
PostMeetings(body) ==
    /\ call' = Call("meetings.post", 0, body)
    /\ IF body.kind = "list"
       THEN /\ reply' = Reply(500, "exception", {})
            /\ UNCHANGED meeting
       ELSE IF NotData(body) \/ ~TruthyText(body, "title")
            THEN /\ reply' = Reply(400, "error", {})
                 /\ UNCHANGED meeting
            ELSE IF ~IsoOk(DictGet(body, "date", TodayIso))
                 THEN /\ reply' = Reply(500, "exception", {})
                      /\ UNCHANGED meeting
                 ELSE LET new_meeting ==
                              MeetingRow(NextId(meeting),
                                         DictGet(body, "time", "09:00"),
                                         body.fields.title,
                                         DictGet(body, "location", "VC"),
                                         DictGet(body, "brief", ""),
                                         DictGet(body, "critical", FALSE),
                                         IsoDay(DictGet(body, "date", TodayIso)))
                      IN  /\ meeting' = meeting \cup {new_meeting}
                          /\ reply' = Reply(201, "row", {new_meeting})
    /\ UNCHANGED <<priority, project, seeding, proxyVars, singleVars, synthVars>>

\* PUT /api/meetings/<id>
PutMeeting(meeting_id, body) ==
    /\ call' = Call("meetings.put", meeting_id, body)
    /\ IF LookupStatus(meeting, meeting_id) # 200
       THEN /\ reply' = Reply(LookupStatus(meeting, meeting_id), "error", {})
            /\ UNCHANGED meeting
       ELSE IF body.kind # "object" \/ (Has(body, "date") /\ ~IsoOk(body.fields.date))
            THEN \* data.get or fromisoformat raises before the commit
                 /\ reply' = Reply(500, "exception", {})
                 /\ UNCHANGED meeting
            ELSE LET old == RowOf(meeting, meeting_id)
                     new == MeetingRow(old.id,
                                       DictGet(body, "time", old.time),
                                       DictGet(body, "title", old.title),
                                       DictGet(body, "location", old.location),
                                       DictGet(body, "brief", old.brief),
                                       DictGet(body, "critical", old.critical),
                                       IF Has(body, "date")
                                       THEN IsoDay(body.fields.date) ELSE old.date)
                 IN  /\ meeting' = (meeting \ {old}) \cup {new}
                     /\ reply' = Reply(200, "row", {new})
    /\ UNCHANGED <<priority, project, seeding, proxyVars, singleVars, synthVars>>

\* DELETE /api/meetings/<id>
DeleteMeeting(meeting_id) ==
    /\ call' = [Call("meetings.delete", meeting_id, NoBody)
                  EXCEPT !.repeat = Repeated("meetings.delete", meeting_id)]
    /\ IF LookupStatus(meeting, meeting_id) # 200
       THEN /\ reply' = Reply(LookupStatus(meeting, meeting_id), "error", {})
            /\ UNCHANGED meeting
       ELSE /\ meeting' = meeting \ {RowOf(meeting, meeting_id)}
            /\ reply' = Reply(200, "message", {})
    /\ UNCHANGED <<priority, project, seeding, proxyVars, singleVars, synthVars>>

----------------------------------------------------------------------------
(* The singleton tables and the per-date briefs: each handler looks a row  *)
(* up and then writes. Lookup and write are operators, so that one request *)
(* can run them in one step and concurrent requests can interleave them.   *)

\* Query.first(): the row SQLite returns first, the one with the least id;
\* present = FALSE is None.
NoRow == [present |-> FALSE, row |-> [id |-> 0]]

First(rows) ==
    IF rows = {} THEN NoRow
    ELSE [present |-> TRUE, row |-> CHOOSE r \in rows : \A q \in rows : r.id <= q.id]

\* What the commit writes for one attribute of a loaded row: the UPDATE names
\* only the attributes whose new value differs from the loaded one.
Flushed(current, loaded, new) == IF new = loaded THEN current ELSE new

ProtocolRow(id, gov, intl, notes) == [id |-> id, gov |-> gov, intl |-> intl, notes |-> notes]

DefaultNotes == "Prep MoU protocol pack for Japanese delegation (Givery)"

\* handle_protocol, GET: line 485
ProtocolLookup(rows) == First(rows)

\* A table that refuses a second row, as a uniqueness constraint would.
ProtocolGetWriteSingleton(rows, found) ==
    IF found.present \/ rows # {} THEN rows
    ELSE rows \cup {ProtocolRow(NextId(rows), FALSE, TRUE, DefaultNotes)}

\* handle_protocol, GET: lines 486-490
ProtocolGetWrite(rows, found) ==
    IF found.present THEN rows
    ELSE rows \cup {ProtocolRow(NextId(rows), FALSE, TRUE, DefaultNotes)}

\* handle_protocol, PUT: lines 496-503. A new Protocol() gets the column
\* defaults for the attributes the body leaves out.
ProtocolPutWrite(rows, found, body) ==
    IF found.present
    THEN LET cur == RowOf(rows, found.row.id)
             old == found.row
             new == ProtocolRow(cur.id,
                        Flushed(cur.gov, old.gov, DictGet(body, "gov", old.gov)),
                        Flushed(cur.intl, old.intl, DictGet(body, "intl", old.intl)),
                        Flushed(cur.notes, old.notes, DictGet(body, "notes", old.notes)))
         IN  (rows \ {cur}) \cup {new}
    ELSE rows \cup {ProtocolRow(NextId(rows), DictGet(body, "gov", FALSE),
                                DictGet(body, "intl", TRUE), DictGet(body, "notes", ""))}

TimeSplitRow(id, bd, internal, strategy, admin) ==
    [id |-> id, bd |-> bd, internal |-> internal, strategy |-> strategy, admin |-> admin]

\* handle_time_split, GET: line 510
TimeSplitLookup(rows) == First(rows)

\* A handler that inserts the default row without looking at what it found.
TimeSplitGetWriteAlways(rows, found) ==
    rows \cup {TimeSplitRow(NextId(rows), 40, 35, 15, 10)}

\* handle_time_split, GET: lines 511-515
TimeSplitGetWrite(rows, found) ==
    IF found.present THEN rows
    ELSE rows \cup {TimeSplitRow(NextId(rows), 40, 35, 15, 10)}

\* handle_time_split, PUT: lines 521-529
TimeSplitPutWrite(rows, found, body) ==
    IF found.present
    THEN LET cur == RowOf(rows, found.row.id)
             old == found.row
             new == TimeSplitRow(cur.id,
                        Flushed(cur.bd, old.bd, DictGet(body, "BD", old.bd)),
                        Flushed(cur.internal, old.internal, DictGet(body, "Internal", old.internal)),
                        Flushed(cur.strategy, old.strategy, DictGet(body, "Strategy", old.strategy)),
                        Flushed(cur.admin, old.admin, DictGet(body, "Admin", old.admin)))
         IN  (rows \ {cur}) \cup {new}
    ELSE rows \cup {TimeSplitRow(NextId(rows), DictGet(body, "BD", 40),
                                 DictGet(body, "Internal", 35),
                                 DictGet(body, "Strategy", 15), DictGet(body, "Admin", 10))}

ContentFields ==
    {"brief_content", "decisions_required", "drafts", "followups", "risks",
     "next_actions", "proton_update"}

\* The status handle_daily_briefs, POST, leaves with before the lookup, or 0
\* when it reaches the lookup: lines 543-548.
BriefRejected(body) ==
    IF body.kind = "list" THEN 500
    ELSE IF NotData(body) \/ ~TruthyText(body, "brief_content") THEN 400
    ELSE IF ~IsoOk(DictGet(body, "date", TodayIso)) THEN 500
    ELSE 0

BriefDate(body) == IsoDay(DictGet(body, "date", TodayIso))

\* DailyBrief.query.filter_by(date=date_obj).first(): line 549
BriefLookup(rows, body) == First({r \in rows : r.date = BriefDate(body)})

BriefRow(id, date, body) ==
    [id |-> id, date |-> date,
     brief_content |-> body.fields.brief_content,
     decisions_required |-> DictGetOrNone(body, "decisions_required"),
     drafts |-> DictGetOrNone(body, "drafts"),
     followups |-> DictGetOrNone(body, "followups"),
     risks |-> DictGetOrNone(body, "risks"),
     next_actions |-> DictGetOrNone(body, "next_actions"),
     proton_update |-> DictGetOrNone(body, "proton_update")]

\* A bug that keeps the stored value of a field the body leaves out.
BriefWriteKeepAbsent(rows, found, body) ==
    IF found.present
    THEN LET cur == RowOf(rows, found.row.id)
             new == [f \in DOMAIN cur |->
                        IF f \in ContentFields /\ Has(body, f) THEN body.fields[f] ELSE cur[f]]
         IN  (rows \ {cur}) \cup {new}
    ELSE rows \cup {BriefRow(NextId(rows), BriefDate(body), body)}

\* handle_daily_briefs, POST: lines 551-574
BriefWrite(rows, found, body) ==
    IF found.present
    THEN LET cur == RowOf(rows, found.row.id)
             old == found.row
             set == BriefRow(cur.id, cur.date, body)
             new == [f \in DOMAIN cur |->
                        IF f \in ContentFields THEN Flushed(cur[f], old[f], set[f]) ELSE cur[f]]
         IN  (rows \ {cur}) \cup {new}
    ELSE rows \cup {BriefRow(NextId(rows), BriefDate(body), body)}

Workers == {"w1", "w2"}

Idle == [pc |-> "idle", name |-> "none", body |-> NoBody, found |-> NoRow]

restOfSingle == <<priority, project, meeting, seeding, proxyVars, synthVars>>

\* GET /api/protocol
GetProtocol ==
    LET found == ProtocolLookup(protocol)
    IN  /\ protocol' = ProtocolGetWrite(protocol, found)
        /\ call' = [Call("protocol.get", 0, NoBody) EXCEPT !.found = found.row.id]
        /\ reply' = Reply(200, "row", {First(protocol').row})
        /\ UNCHANGED <<time_split, daily_brief, inflight, restOfSingle>>

\* PUT /api/protocol
PutProtocol(body) ==
    LET found == ProtocolLookup(protocol)
    IN  /\ call' = [Call("protocol.put", 0, body) EXCEPT !.found = found.row.id]
        /\ IF body.kind # "object"
           THEN /\ reply' = Reply(500, "exception", {})
                /\ UNCHANGED protocol
           ELSE /\ protocol' = ProtocolPutWrite(protocol, found, body)
                /\ reply' = Reply(200, "row", {First(protocol').row})
        /\ UNCHANGED <<time_split, daily_brief, inflight, restOfSingle>>

\* GET /api/time-split
GetTimeSplit ==
    LET found == TimeSplitLookup(time_split)
    IN  /\ time_split' = TimeSplitGetWrite(time_split, found)
        /\ call' = [Call("timesplit.get", 0, NoBody) EXCEPT !.found = found.row.id]
        /\ reply' = Reply(200, "row", {First(time_split').row})
        /\ UNCHANGED <<protocol, daily_brief, inflight, restOfSingle>>

\* PUT /api/time-split
PutTimeSplit(body) ==
    LET found == TimeSplitLookup(time_split)
    IN  /\ call' = [Call("timesplit.put", 0, body) EXCEPT !.found = found.row.id]
        /\ IF body.kind # "object"
           THEN /\ reply' = Reply(500, "exception", {})
                /\ UNCHANGED time_split
           ELSE /\ time_split' = TimeSplitPutWrite(time_split, found, body)
                /\ reply' = Reply(200, "row", {First(time_split').row})
        /\ UNCHANGED <<protocol, daily_brief, inflight, restOfSingle>>

\* GET /api/daily-briefs?date=...
GetDailyBriefs(date_str) ==
    LET d == IF date_str.present THEN date_str.val ELSE TodayIso
        found == First({r \in daily_brief : r.date = IsoDay(d)})
    IN  /\ call' = Call("briefs.get", 0, NoBody)
        /\ reply' = IF ~IsoOk(d) THEN Reply(500, "exception", {})
                    ELSE IF found.present THEN Reply(200, "row", {found.row})
                    ELSE Reply(404, "message", {})
        /\ UNCHANGED <<protocol, time_split, daily_brief, inflight, restOfSingle>>

\* POST /api/daily-briefs
PostDailyBriefs(body) ==
    /\ IF BriefRejected(body) # 0
       THEN /\ call' = Call("briefs.post", 0, body)
            /\ reply' = Reply(BriefRejected(body), "error", {})
            /\ UNCHANGED daily_brief
       ELSE LET found == BriefLookup(daily_brief, body)
            IN  /\ call' = [Call("briefs.post", 0, body) EXCEPT !.found = found.row.id]
                /\ daily_brief' = BriefWrite(daily_brief, found, body)
                /\ reply' = Reply(201, "message", {})
    /\ UNCHANGED <<protocol, time_split, inflight, restOfSingle>>

----------------------------------------------------------------------------
(* The brief synthesizer: the marker-based parsing of the model's text.    *)

\* s[i:i+len(sep)] == sep
MatchAt(s, sep, i) == i + Len(sep) - 1 <= Len(s) /\ SubSeq(s, i, i + Len(sep) - 1) = sep

\* s.find(sep) + 1: the first position where sep occurs, 0 when it does not
Find(s, sep) ==
    IF \E i \in 1..Len(s) : MatchAt(s, sep, i)
    THEN CHOOSE i \in 1..Len(s) : MatchAt(s, sep, i) /\ \A j \in 1..(i - 1) : ~MatchAt(s, sep, j)
    ELSE 0

\* sep in s
Contains(s, sep) == Find(s, sep) # 0

\* s.split(sep, 1): one part when sep does not occur, else two
SplitOnce(s, sep) ==
    LET i == Find(s, sep)
    IN  IF i = 0 THEN <<s>>
        ELSE <<SubSeq(s, 1, i - 1), SubSeq(s, i + Len(sep), Len(s))>>

\* s.split(sep)
RECURSIVE SplitAll(_, _)
SplitAll(s, sep) ==
    LET i == Find(s, sep)
    IN  IF i = 0 THEN <<s>>
        ELSE <<SubSeq(s, 1, i - 1)>> \o SplitAll(SubSeq(s, i + Len(sep), Len(s)), sep)

MarkBrief == <<"BRIEF">>
MarkDecisionsWord == <<"DECISIONS_REQUIRED">>
MarkDecisions == <<"DECISIONS_REQUIRED", ":">>
MarkDrafts == <<"DRAFTS", ":">>
MarkFollowups == <<"FOLLOWUPS", ":">>
MarkRisks == <<"RISKS", ":">>
MarkNext == <<"NEXT_ACTIONS", ":">>

\* Lines 651 and 662-669: brief_content
BriefText(response_text) ==
    IF Contains(response_text, MarkBrief) /\ Contains(response_text, MarkDecisionsWord)
    THEN LET after == SplitOnce(response_text, MarkBrief)[2]
             uncolon == IF Contains(SplitOnce(after, MarkDecisionsWord)[1], <<":">>)
                        THEN SplitOnce(after, <<":">>)[2]
                        ELSE after
         IN  Strip(SplitOnce(uncolon, MarkDecisionsWord)[1])
    ELSE response_text

\* A bug that cuts the section at the end of the text instead of at the next marker.
SectionToEnd(response_text, mark, next) ==
    IF Contains(response_text, mark)
    THEN Strip(SplitAll(response_text, mark)[2])
    ELSE <<>>

\* Lines 670-677: response_text.split(mark)[1].split(next)[0].strip()
Section(response_text, mark, next) ==
    IF Contains(response_text, mark)
    THEN Strip(SplitAll(SplitAll(response_text, mark)[2], next)[1])
    ELSE <<>>

\* Lines 678-679: response_text.split("NEXT_ACTIONS:")[1].strip()
LastSection(response_text, mark) ==
    IF Contains(response_text, mark)
    THEN Strip(SplitAll(response_text, mark)[2])
    ELSE <<>>

NoSynth ==
    [status |-> 0, brief |-> <<>>, decisions_required |-> <<>>, drafts |-> <<>>,
     followups |-> <<>>, risks |-> <<>>, next_actions |-> <<>>]

SynthError(status) == [NoSynth EXCEPT !.status = status]

\* Lines 650-688: the structured reply parsed from response_text
ParseBrief(response_text) ==
    [status |-> 200,
     brief |-> BriefText(response_text),
     decisions_required |-> Section(response_text, MarkDecisions, MarkDrafts),
     drafts |-> Section(response_text, MarkDrafts, MarkFollowups),
     followups |-> Section(response_text, MarkFollowups, MarkRisks),
     risks |-> Section(response_text, MarkRisks, MarkNext),
     next_actions |-> LastSection(response_text, MarkNext)]

\* Line 650: text, else str(candidates) when there are candidates, else ''.
\* candidates holds str(response.candidates), <<>> for an empty list.
ResponseText(r) ==
    IF r.text # NoneSeq /\ r.text # <<>> THEN r.text
    ELSE IF r.candidates # NoneSeq /\ r.candidates # <<>> THEN r.candidates
    ELSE <<>>

\* POST /api/generate_brief: body is the JSON snapshot the caller sends;
\* model_reply is what generate_content does for the prompt built from it
\* and from the LearningMemory rows read at lines 610-612.
GenerateBrief(body) ==
    /\ synth' =
         IF ~config.gemini_key THEN SynthError(500)
         ELSE IF body.kind # "object" THEN SynthError(500)  \* data.get raises
         ELSE IF model_reply.kind = "raise" THEN SynthError(500)
         ELSE ParseBrief(ResponseText(model_reply))
    /\ UNCHANGED <<learning_memory, model_reply, proxyVars, crudVars>>

----------------------------------------------------------------------------
(* The learning memory: /api/learning-memory.                              *)

MemoryKeys == {"context", "correction", "category"}

MemoryRow(id, context, correction, category) ==
    [id |-> id, context |-> context, correction |-> correction, category |-> category]

\* Line 590: not data or not all(k in data for k in [...])
MemoryRejected(body) == NotData(body) \/ ~(\A k \in MemoryKeys : Has(body, k))

\* The three columns are nullable=False (lines 107-109): the INSERT of a
\* None value fails at commit.
MemoryNotNull(body) == \A k \in MemoryKeys : body.fields[k] # NoneVal

\* A handler that keeps one row per category, replacing the older one.
MemoryWriteUpsert(rows, body) ==
    {r \in rows : r.category # body.fields.category}
    \cup {MemoryRow(NextId(rows), body.fields.context, body.fields.correction,
                    body.fields.category)}

\* Lines 593-599
MemoryWrite(rows, body) ==
    rows \cup {MemoryRow(NextId(rows), body.fields.context, body.fields.correction,
                         body.fields.category)}

restOfMemory == <<priority, project, meeting, seeding, proxyVars, singleVars, model_reply, synth>>

\* GET /api/learning-memory?category=...: the rows of the category, all rows
\* when the parameter is absent or empty (the limit of 50 is above MaxMemoryId).
GetLearningMemory(category) ==
    /\ call' = Call("memory.get", 0, NoBody)
    /\ reply' = Reply(200, "rows",
                      IF category.present /\ category.val # ""
                      THEN {r \in learning_memory : r.category = category.val}
                      ELSE learning_memory)
    /\ UNCHANGED <<learning_memory, restOfMemory>>

\* POST /api/learning-memory
PostLearningMemory(body) ==
    /\ call' = Call("memory.post", 0, body)
    /\ IF MemoryRejected(body)
       THEN /\ reply' = Reply(400, "error", {})
            /\ UNCHANGED learning_memory
       ELSE IF ~MemoryNotNull(body)
            THEN /\ reply' = Reply(500, "exception", {})
                 /\ UNCHANGED learning_memory
            ELSE /\ learning_memory' = MemoryWrite(learning_memory, body)
                 /\ reply' = Reply(201, "row", learning_memory' \ learning_memory)
    /\ UNCHANGED restOfMemory

----------------------------------------------------------------------------
(* Inputs of the proxy endpoints.                                          *)

NoRequest == [endpoint |-> "none", hours |-> NoSeqArg, date |-> NoArg, id |-> NoArg]
NoResponse == Resp(0, "none", "", NoData)

Msg(id, subject, preview, sender, when) ==
    [id |-> id, subject |-> subject, bodyPreview |-> preview, sender |-> sender,
     receivedDateTime |-> when, from_null |-> FALSE]

MsgPlain == Msg("m1", <<"S">>, <<"p">>, <<"A">>, "2024-01-01T10:00:00Z")

UpOk(payload) == [status_code |-> 200, text |-> "ok", json |-> payload]
UpErr(code, text) == [status_code |-> code, text |-> text, json |-> <<>>]

UpstreamErrors == {UpErr(c, t) : c \in {401, 503}, t \in {"", "upstream error"}}

TextOutcome(text) == [kind |-> "text", text |-> text]
RaiseOutcome == [kind |-> "raise", text |-> <<>>]
BriefReply(text, candidates) == [kind |-> "text", text |-> text, candidates |-> candidates]

HourParams ==
    {NoSeqArg} \cup {[present |-> TRUE, val |-> h] : h \in SeqsUpTo(HourChars, MaxHoursLen)}

DateParams ==
    {NoArg} \cup {[present |-> TRUE, val |-> d] : d \in {"", "2024-01-02", "yesterday"}}

Uuids == {"u1", "u2"}

Arg(v) == [present |-> TRUE, val |-> v]

CallbackArgs ==
    [state : {NoArg} \cup {Arg(u) : u \in Uuids},
     has_error : BOOLEAN,
     code : {NoArg, Arg("code")}]

TokenResults == {[access_token |-> "tokA"], [access_token |-> ""]}

InitStore ==
    /\ priority = {}
    /\ project = {}
    /\ meeting = {}
    /\ call = NoCall
    /\ reply = NoReply
    /\ seeding = [done |-> FALSE, again |-> FALSE]
    /\ protocol = {}
    /\ time_split = {}
    /\ daily_brief = {}
    /\ inflight = [w \in Workers |-> Idle]
    /\ learning_memory = {}

InitSynth ==
    /\ model_reply = RaiseOutcome
    /\ synth = NoSynth

InitProxy ==
    /\ InitStore
    /\ config \in [gemini_key : BOOLEAN]
    /\ session = [state |-> NoArg, ms_graph_token |-> NoToken]
    /\ request = NoRequest
    /\ response = NoResponse
    /\ graph = NoGraph
    /\ model_calls = <<>>
    /\ window = NoWindow

----------------------------------------------------------------------------
(* SpecHours: a client whose requests carry one hours parameter, any short *)
(* string over HourChars, against /api/outlook/events and                  *)
(* /api/inbox/snapshot.                                                    *)

\* What the provider may answer: its messages with 200 (the calendar payload,
\* passed through verbatim, is the empty list), or an error status.
MailAnswers == {UpOk(mailbox)} \cup UpstreamErrors
CalendarAnswers == {UpOk(<<>>)} \cup UpstreamErrors

InitHours ==
    /\ InitProxy
    /\ InitSynth
    /\ hours_arg \in HourParams
    /\ mailbox = <<MsgPlain>>

HoursCallback ==
    \E result \in TokenResults :
        Callback([state |-> NoArg, has_error |-> FALSE, code |-> Arg("code")], result)

HoursEvents ==
    \E d \in {NoArg, Arg("yesterday")}, up \in {UpOk(<<>>), UpErr(503, "upstream error")} :
        GetEvents(hours_arg, d, up)

HoursSnapshot ==
    \E up \in {UpOk(mailbox), UpErr(503, "upstream error")} :
        InboxSnapshot(hours_arg, up, [i \in 1..Len(up.json) |-> TextOutcome(<<"s">>)])

NextHours == HoursCallback \/ HoursEvents \/ HoursSnapshot

SpecHours == InitHours /\ [][NextHours]_vars

\* hours selects the trailing window when it is present and not empty
SelectsTrailing(h) == h.present /\ h.val # <<>>

\* C1: whenever a handled events or snapshot request carried an hours value
\* that selects the trailing-hours window, the hour count of the window lies
\* in [1,168]: an integer below 1 gives 1, above 168 gives 168, inside the
\* range itself, and a value that is no integer gives 24.
C1_HoursClamped ==
    (/\ request.endpoint \in {"events", "snapshot"}
     /\ SelectsTrailing(request.hours)
     /\ response.kind # "error" \/ graph.called)
    => LET n == PyInt(request.hours.val)
       IN  /\ window.kind = "trailing"
           /\ window.hours \in 1..168
           /\ (n.ok /\ n.val < 1) => window.hours = 1
           /\ (n.ok /\ n.val > 168) => window.hours = 168
           /\ (n.ok /\ n.val \in 1..168) => window.hours = n.val
           /\ ~n.ok => window.hours = 24

C1_Witness ==
    /\ request.endpoint = "snapshot"
    /\ SelectsTrailing(request.hours)
    /\ PyInt(request.hours.val).ok
    /\ PyInt(request.hours.val).val > 168
    /\ window.kind = "trailing"
    /\ window.hours = 168
    /\ graph.outbound = 1

----------------------------------------------------------------------------
(* SpecProxy: one session going through the OAuth round trip and calling   *)
(* the four proxied endpoints, the provider answering in any way.          *)

MaxMsgs == 2

MsgBlankSubject == Msg("m2", <<" ">>, <<"q">>, <<"B">>, "not a time")
MsgNullSubject == Msg("m3", NoneSeq, <<"r">>, NoneSeq, "2024-01-01T10:00:00")
MsgPadded == Msg("m4", <<" ", "T">>, <<" ", "p", "\n", "q">>, <<"C">>, "2024-01-01T10:00:00+05:30")

ProxyMessages == {MsgPlain, MsgBlankSubject, MsgNullSubject, MsgPadded}

\* SpecSnapshot has the other outcomes of a model call.
ModelOutcomes == {TextOutcome(<<"s">>), RaiseOutcome}

InitProxySession ==
    /\ InitProxy
    /\ InitSynth
    /\ hours_arg \in {NoSeqArg, [present |-> TRUE, val |-> <<"6">>]}
    /\ mailbox \in SeqsUpTo(ProxyMessages, MaxMsgs)

ProxyAuth == \E u \in Uuids : Auth(u)

\* The callbacks that reach the code exchange; SpecOAuth has every shape.
ProxyCallback ==
    \E args \in {a \in CallbackArgs : ~a.has_error /\ a.code.present}, result \in TokenResults :
        Callback(args, result)

ProxyEvents == \E d \in DateParams, up \in CalendarAnswers : GetEvents(hours_arg, d, up)

ProxyMails == \E up \in MailAnswers : GetMails(up)

ProxyMessage ==
    \E msg_id \in {NoArg, Arg(""), Arg("m1")}, up \in MailAnswers :
        GetMessageById(msg_id, up)

ProxySnapshot ==
    \E up \in MailAnswers :
        \E outcomes \in [1..Len(up.json) -> ModelOutcomes] :
            InboxSnapshot(hours_arg, up, outcomes)

NextProxy ==
    \/ ProxyAuth
    \/ ProxyCallback
    \/ OutlookStatus
    \/ ProxyEvents
    \/ ProxyMails
    \/ ProxyMessage
    \/ ProxySnapshot

SpecProxy == InitProxySession /\ [][NextProxy]_vars

\* C8: a request that reached the Graph primitive while the session held no
\* token was answered 401 "User not authenticated." and sent nothing to the
\* provider; a request was sent to the provider only with a token in the
\* session.
C8_NoTokenNoOutbound ==
    /\ (graph.called /\ ~session.ms_graph_token.present)
       => /\ response.status = 401
          /\ response.kind = "error"
          /\ response.error = "User not authenticated."
          /\ graph.outbound = 0
    /\ graph.outbound > 0 => session.ms_graph_token.present

C8_Witness ==
    /\ request.endpoint = "snapshot"
    /\ graph.called
    /\ ~session.ms_graph_token.present
    /\ response.status = 401
    /\ graph.outbound = 0

\* C9: whenever the provider answered a proxied request with a status other
\* than 200, whatever the body, the endpoint answered with an error result
\* carrying that status and that body text.
C9_UpstreamErrorForwarded ==
    (graph.outbound > 0 /\ graph.upstream_status # 200)
    => /\ response.kind = "error"
       /\ response.status = graph.upstream_status
       /\ response.error = graph.upstream_text

----------------------------------------------------------------------------
(* Inputs and initial state of the record-store specifications.            *)

InitIdleProxy ==
    /\ config = [gemini_key |-> TRUE]
    /\ session = [state |-> NoArg, ms_graph_token |-> NoToken]
    /\ request = NoRequest
    /\ response = NoResponse
    /\ graph = NoGraph
    /\ model_calls = <<>>
    /\ window = NoWindow
    /\ hours_arg = NoSeqArg
    /\ mailbox = <<>>

InitCrud == InitStore /\ InitIdleProxy /\ InitSynth

PriorityBodies ==
    {NoBody, ListBody, Obj(NoFields), Obj([note |-> "x"]), Obj([text |-> ""]),
     Obj([text |-> NoneVal]), Obj([text |-> "Call bank"]), Obj([text |-> "Pay rent"])}

ProjectBodies == {NoBody, Obj(NoFields), Obj([name |-> "Renamed", health |-> 10])}

MeetingBodies ==
    {NoBody, Obj([title |-> ""]), Obj([title |-> "Board"]),
     Obj([title |-> "Board", date |-> "yesterday"]),
     Obj([title |-> "Review", time |-> "10:30", date |-> "2024-01-02", critical |-> TRUE])}

MeetingUpdates == {NoBody, Obj([brief |-> "notes"]), Obj([date |-> "yesterday"])}

\* The guards keep the ids within the bounds of the model.
CreatePriority(body) == NextId(priority) <= MaxPriorityId /\ PostPriorities(body)
CreateProject == NextId(project) <= MaxProjectId /\ PostProjects
CreateMeeting(body) == NextId(meeting) <= MaxMeetingId /\ PostMeetings(body)

PrioDelete == \E id \in 1..MaxPriorityId : DeletePriority(id)
ProjDelete == \E id \in 1..MaxProjectId : DeleteProject(id)
MeetDelete == \E id \in 1..MaxMeetingId : DeleteMeeting(id)

----------------------------------------------------------------------------
(* SpecDelete: rows of the three deletable tables are created and deleted. *)

DeleteNames == {"priorities.delete", "projects.delete", "meetings.delete"}

DelCreatePriority == CreatePriority(Obj([text |-> "Call bank"]))
DelCreateMeeting == CreateMeeting(Obj([title |-> "Board"]))

NextDelete ==
    \/ DelCreatePriority
    \/ PrioDelete
    \/ GetProjects
    \/ CreateProject
    \/ ProjDelete
    \/ DelCreateMeeting
    \/ MeetDelete

SpecDelete == InitCrud /\ [][NextDelete]_vars

\* The table a DELETE request names
TableOf(name) ==
    CASE name = "priorities.delete" -> priority
      [] name = "projects.delete" -> project
      [] name = "meetings.delete" -> meeting

\* C4: a DELETE of a priority, project or meeting whose id matches no row of
\* its table is answered 404 and changes no table, also when the same id was
\* deleted by the request before.
C4_DeleteMissingIs404 ==
    [][(call'.name \in DeleteNames /\ call'.id \notin Ids(TableOf(call'.name)))
       => /\ reply'.status = 404
          /\ <<priority, project, meeting>>' = <<priority, project, meeting>>]_vars

C4_Witness ==
    /\ call.name = "projects.delete"
    /\ call.repeat
    /\ reply.status = 404
    /\ project # {}

----------------------------------------------------------------------------
(* SpecProjects: every operation on the Project table, in any order.       *)

ProjPut == \E id \in 1..MaxProjectId, body \in ProjectBodies : PutProject(id, body)

NextProjects == GetProjects \/ CreateProject \/ ProjPut \/ ProjDelete

SpecProjects == InitCrud /\ [][NextProjects]_vars

NameHealth(rows) == {<<r.name, r.health>> : r \in rows}

FixedDefaults ==
    {<<"PPL 5th Evaporator", 62>>, <<"Alkali Scrubber SAP-A/B", 78>>, <<"TG-4 (23 MW)", 54>>}

\* C5: a GET /api/projects that finds the table empty inserts and returns
\* exactly three projects with the fixed names and health values, and a GET
\* that directly follows a GET returns the same rows and inserts nothing.
C5_SeedThenStable ==
    [][call'.name = "projects.get"
       => /\ project = {}
             => /\ reply'.status = 200
                /\ reply'.rows = project'
                /\ Cardinality(project') = 3
                /\ NameHealth(project') = FixedDefaults
          /\ call.name = "projects.get"
             => /\ project' = project
                /\ reply'.rows = reply.rows
                /\ reply'.rows = project]_vars

C5_Witness ==
    /\ call.name = "projects.get"
    /\ reply.seeded
    /\ reply.rows = project
    /\ Cardinality(project) = 3

\* The rows a step inserts into the Project table
InsertedProjects == {r \in project' : r.id \notin Ids(project)}

DefaultNames == {"PPL 5th Evaporator", "Alkali Scrubber SAP-A/B", "TG-4 (23 MW)"}

\* C6 as stated: the default projects are inserted at most once, whatever
\* the operations that follow.
C6_SeededOnce == ~seeding.again

\* C6 amended: a step inserts default projects exactly when it is a GET that
\* finds the Project table empty, and then it inserts all three; so a GET
\* after the deletion of every project seeds again.
C6_SeedsWheneverEmpty ==
    [][/\ (\E r \in InsertedProjects : r.name \in DefaultNames)
          <=> (call'.name = "projects.get" /\ project = {})
       /\ (call'.name = "projects.get" /\ project = {})
          => NameHealth(InsertedProjects) = FixedDefaults]_vars

C6_Witness ==
    /\ call.name = "projects.get"
    /\ reply.seeded
    /\ seeding.again
    /\ Cardinality(project) = 3

----------------------------------------------------------------------------
(* SpecPriorities: the validated creates (priorities, meetings) with every *)
(* body shape, and the updates and deletes of their rows.                  *)

PrioCreate == \E body \in PriorityBodies : CreatePriority(body)
MeetGet == \E d \in DateParams : GetMeetings(d)
MeetCreate == \E body \in MeetingBodies : CreateMeeting(body)
MeetPut == \E id \in 1..MaxMeetingId, body \in MeetingUpdates : PutMeeting(id, body)

NextPriorities ==
    \/ GetPriorities
    \/ PrioCreate
    \/ PrioDelete
    \/ MeetGet
    \/ MeetCreate
    \/ MeetPut
    \/ MeetDelete

SpecPriorities == InitCrud /\ [][NextPriorities]_vars

BodyMissing(b) == b.kind = "none"
BodyLacksText(b) == b.kind = "object" /\ "text" \notin DOMAIN b.fields
BodyEmptyText(b) == b.kind = "object" /\ "text" \in DOMAIN b.fields /\ b.fields.text = ""

\* C7: a POST /api/priorities whose body is missing, has no text key or has
\* an empty text is answered 400 and leaves the table as it was; the table
\* gains a row, and the answer is 201, only for a text that is present and
\* not empty.
C7_PriorityNeedsText ==
    [][call'.name = "priorities.post"
       => LET b == call'.body
          IN  /\ (BodyMissing(b) \/ BodyLacksText(b) \/ BodyEmptyText(b))
                 => (reply'.status = 400 /\ priority' = priority)
              /\ (priority' # priority \/ reply'.status = 201)
                 => /\ b.kind = "object"
                    /\ "text" \in DOMAIN b.fields
                    /\ b.fields.text \notin {"", NoneVal}
                    /\ reply'.status = 201
                    /\ \E r \in priority' :
                          /\ r.id \notin Ids(priority)
                          /\ r.text = b.fields.text
                          /\ priority' = priority \cup {r}]_vars

C7_Witness ==
    /\ call.name = "priorities.post"
    /\ BodyEmptyText(call.body)
    /\ reply.status = 400
    /\ priority # {}

----------------------------------------------------------------------------
(* SpecBriefs: daily briefs are posted and read, one request at a time.    *)

OptionalSets ==
    {{}, {"decisions_required"}, {"drafts", "followups"},
     {"risks", "next_actions", "proton_update"},
     ContentFields \ {"brief_content"}}

\* A JSON object with brief_content bc and date d (Absent leaves the key
\* out) and the optional keys opt, whose values tell the two contents apart.
BriefBody(bc, d, opt) ==
    Obj([k \in ((IF bc = Absent THEN {} ELSE {"brief_content"})
                \cup (IF d = Absent THEN {} ELSE {"date"}) \cup opt) |->
            CASE k = "brief_content" -> bc
              [] k = "date" -> d
              [] OTHER -> IF bc = "a" THEN "x" ELSE "y"])

BriefBodies ==
    {NoBody, ListBody}
    \cup {BriefBody(bc, d, opt) :
            bc \in {Absent, "", "a", "b"},
            d \in {Absent, "2024-01-01T09:30", "2024-01-02", "yesterday"},
            opt \in OptionalSets}

BriefsGet == \E d \in DateParams : GetDailyBriefs(d)
BriefsPost == \E body \in BriefBodies : PostDailyBriefs(body)

NextBriefs == BriefsGet \/ BriefsPost

SpecBriefs == InitCrud /\ [][NextBriefs]_vars

\* The calendar day a POST body names: its date key, else today; 0 when the
\* date does not parse.
PostedDay(b) == IF "date" \in DOMAIN b.fields THEN IsoDay(b.fields.date) ELSE Today

\* C3: a POST /api/daily-briefs with a non-empty brief_content for a date
\* that has a row sets every content field of that row to the body's value,
\* or to None when the body has no such key; the row keeps id and date, no
\* row is added and no other row changes.
C3_UpsertOverwrites ==
    [][(/\ call'.name = "briefs.post"
        /\ call'.body.kind = "object"
        /\ "brief_content" \in DOMAIN call'.body.fields
        /\ call'.body.fields.brief_content \notin {"", NoneVal}
        /\ \E r \in daily_brief : r.date = PostedDay(call'.body))
       => LET b == call'.body
              old == CHOOSE r \in daily_brief : r.date = PostedDay(b)
          IN  /\ reply'.status = 201
              /\ Ids(daily_brief') = Ids(daily_brief)
              /\ \E new \in daily_brief' :
                    /\ new.id = old.id
                    /\ new.date = old.date
                    /\ \A f \in ContentFields :
                          new[f] = IF f \in DOMAIN b.fields THEN b.fields[f] ELSE NoneVal
                    /\ daily_brief' \ {new} = daily_brief \ {old}]_vars

C3_Witness ==
    /\ call.name = "briefs.post"
    /\ call.found # 0
    /\ reply.status = 201
    /\ "drafts" \notin DOMAIN call.body.fields
    /\ RowOf(daily_brief, call.found).drafts = NoneVal
    /\ RowOf(daily_brief, call.found).brief_content = "b"
    /\ Cardinality(daily_brief) = 2

----------------------------------------------------------------------------
(* SpecRace: two workers serve requests concurrently. A request does its   *)
(* lookup in one step and its write and commit in a later one, and the     *)
(* other worker may run in between. No lock, version or uniqueness         *)
(* constraint exists in the source, so the model has none.                 *)

RaceNames == {"protocol.get", "protocol.put", "timesplit.get", "timesplit.put", "briefs.post"}

RaceBodies(name) ==
    CASE name = "protocol.put" -> {NoBody, Obj([gov |-> TRUE])}
      [] name = "timesplit.put" -> {Obj([BD |-> 50])}
      [] name = "briefs.post" ->
            {BriefBody("a", Absent, {}), BriefBody("b", "2024-01-02", {"drafts", "followups"})}
      [] OTHER -> {NoBody}

\* The rows of the table a request works on
RaceTable(name) ==
    CASE name \in {"protocol.get", "protocol.put"} -> protocol
      [] name \in {"timesplit.get", "timesplit.put"} -> time_split
      [] name = "briefs.post" -> daily_brief

\* The same table after the step
RaceTableAfter(name) ==
    CASE name \in {"protocol.get", "protocol.put"} -> protocol'
      [] name \in {"timesplit.get", "timesplit.put"} -> time_split'
      [] name = "briefs.post" -> daily_brief'

\* The lookup of a request: lines 485, 495, 510, 520 and 549.
RaceFound(name, body) ==
    CASE name \in {"protocol.get", "protocol.put"} -> ProtocolLookup(protocol)
      [] name \in {"timesplit.get", "timesplit.put"} -> TimeSplitLookup(time_split)
      [] name = "briefs.post" -> BriefLookup(daily_brief, body)

\* The write of a request, given what its lookup found.
RaceWritten(name, found, body) ==
    CASE name = "protocol.get" -> ProtocolGetWrite(protocol, found)
      [] name = "protocol.put" -> ProtocolPutWrite(protocol, found, body)
      [] name = "timesplit.get" -> TimeSplitGetWrite(time_split, found)
      [] name = "timesplit.put" -> TimeSplitPutWrite(time_split, found, body)
      [] name = "briefs.post" -> BriefWrite(daily_brief, found, body)

\* A worker takes a request and runs it up to and including the lookup.
RaceLookup(w, name, body) ==
    /\ inflight[w].pc = "idle"
    /\ inflight' = [inflight EXCEPT ![w] =
                      [pc |-> "looked", name |-> name, body |-> body,
                       found |-> RaceFound(name, body)]]
    /\ UNCHANGED <<protocol, time_split, daily_brief, call, reply, restOfSingle>>

\* The worker writes, commits and answers.
RaceCommit(w) ==
    LET r == inflight[w]
        failed == r.name \in {"protocol.put", "timesplit.put"} /\ r.body.kind # "object"
        written == RaceWritten(r.name, r.found, r.body)
    IN  /\ r.pc = "looked"
        /\ inflight' = [inflight EXCEPT ![w] = Idle]
        /\ call' = [Call(r.name, 0, r.body) EXCEPT !.found = r.found.row.id]
        /\ reply' = IF failed THEN Reply(500, "exception", {})
                    ELSE Reply(IF r.name = "briefs.post" THEN 201 ELSE 200, "row", {})
        /\ protocol' = IF ~failed /\ r.name \in {"protocol.get", "protocol.put"}
                       THEN written ELSE protocol
        /\ time_split' = IF ~failed /\ r.name \in {"timesplit.get", "timesplit.put"}
                         THEN written ELSE time_split
        /\ daily_brief' = IF r.name = "briefs.post" THEN written ELSE daily_brief
        /\ UNCHANGED restOfSingle

RaceBegin == \E w \in Workers, name \in RaceNames : \E body \in RaceBodies(name) :
                 RaceLookup(w, name, body)

RaceEnd == \E w \in Workers : RaceCommit(w)

NextRace == RaceBegin \/ RaceEnd

SpecRace == InitCrud /\ [][NextRace]_vars

\* The rows that stand for the same logical record as the request's: every
\* row of a singleton table, the rows of the posted date for a brief.
SameRecord(name, body, rows) ==
    IF name = "briefs.post" THEN {r \in rows : r.date = PostedDay(body)} ELSE rows

\* C10: when a request whose lookup found no row commits, it inserts a row,
\* also when another request has inserted the record in between; the table
\* then holds two rows for one logical record (two Protocol rows, two
\* TimeSplit rows, two DailyBrief rows of one date).
C10_RaceDuplicates ==
    [][\A w \in Workers :
          (/\ inflight[w].pc = "looked"
           /\ inflight'[w].pc = "idle"
           /\ ~inflight[w].found.present
           /\ reply'.status \in {200, 201})
          => LET name == inflight[w].name
                 body == inflight[w].body
                 before == SameRecord(name, body, RaceTable(name))
                 after == SameRecord(name, body, RaceTableAfter(name))
             IN  /\ Cardinality(after) = Cardinality(before) + 1
                 /\ before \subseteq after]_vars

C10_Witness ==
    /\ Cardinality(protocol) = 2
    /\ Cardinality(time_split) = 2
    /\ \E r, q \in daily_brief : r.id # q.id /\ r.date = q.date

----------------------------------------------------------------------------
(* SpecSingle: the singleton and brief handlers, one request at a time.    *)

SinglePutProtocol == \E body \in RaceBodies("protocol.put") : PutProtocol(body)
SinglePutTimeSplit == \E body \in {NoBody} \cup RaceBodies("timesplit.put") : PutTimeSplit(body)
SinglePostBriefs ==
    \E body \in {NoBody, BriefBody("a", Absent, {}),
                  BriefBody("b", "2024-01-01T09:30", {"drafts"}),
                  BriefBody("b", "2024-01-02", {})} :
        PostDailyBriefs(body)

NextSingle ==
    \/ GetProtocol
    \/ SinglePutProtocol
    \/ GetTimeSplit
    \/ SinglePutTimeSplit
    \/ BriefsGet
    \/ SinglePostBriefs

SpecSingle == InitCrud /\ [][NextSingle]_vars

\* C11: when every request runs from its lookup to its commit before the
\* next one starts, the store never holds more than one Protocol row, more
\* than one TimeSplit row, or two DailyBrief rows of one date.
C11_SequentialUnique ==
    /\ Cardinality(protocol) <= 1
    /\ Cardinality(time_split) <= 1
    /\ \A r, q \in daily_brief : r.date = q.date => r.id = q.id

C11_Witness ==
    /\ call.name = "briefs.post"
    /\ call.found # 0
    /\ reply.status = 201
    /\ Cardinality(protocol) = 1
    /\ Cardinality(time_split) = 1
    /\ Cardinality(daily_brief) = 2

----------------------------------------------------------------------------
(* SpecParse: the model answers the briefing prompt with some text, and    *)
(* /api/generate_brief parses it.                                          *)

MaxTextLen == 4

TextTokens == {"BRIEF", "DECISIONS_REQUIRED", ":", " ", "a"}

\* What stands between two markers of a well-formed answer
Fillers == {<<>>, <<" ", "a", "\n">>, <<"a", ":", " ", "b">>}

\* Answers with the six markers once each, in the order of the prompt
Marked ==
    {g[1] \o MarkBrief \o g[2] \o MarkDecisions \o g[3] \o MarkDrafts \o g[4]
          \o MarkFollowups \o g[5] \o MarkRisks \o g[6] \o MarkNext \o g[7] :
        g \in [1..7 -> Fillers]}

CandidateStrs == {NoneSeq, <<>>, <<"[", "BRIEF", "a", "]">>}

ModelReplies ==
    {RaiseOutcome}
    \cup {BriefReply(t, c) : t \in {NoneSeq, <<>>}, c \in CandidateStrs}
    \cup {BriefReply(t, NoneSeq) : t \in (SeqsUpTo(TextTokens, MaxTextLen) \ {<<>>}) \cup Marked}

InitParse ==
    /\ InitStore
    /\ config \in [gemini_key : BOOLEAN]
    /\ session = [state |-> NoArg, ms_graph_token |-> NoToken]
    /\ request = NoRequest
    /\ response = NoResponse
    /\ graph = NoGraph
    /\ model_calls = <<>>
    /\ window = NoWindow
    /\ hours_arg = NoSeqArg
    /\ mailbox = <<>>
    /\ model_reply \in ModelReplies
    /\ synth = NoSynth

ParseGenerate == \E body \in {NoBody, Obj([date |-> "2024-01-01"])} : GenerateBrief(body)

NextParse == ParseGenerate

SpecParse == InitParse /\ [][NextParse]_vars

Markers == <<MarkBrief, MarkDecisions, MarkDrafts, MarkFollowups, MarkRisks, MarkNext>>

Occurrences(s, sep) == Cardinality({i \in 1..Len(s) : MatchAt(s, sep, i)})

\* All six markers occur once each, in the order of the prompt.
AllInOrder(s) ==
    /\ \A k \in 1..6 : Occurrences(s, Markers[k]) = 1
    /\ \A k \in 1..5 : Find(s, Markers[k]) < Find(s, Markers[k + 1])

NoMarker(s) == \A k \in 1..6 : ~Contains(s, Markers[k])

\* The text between marker k and marker k + 1, to the end for the last one
Between(s, k) ==
    SubSeq(s, Find(s, Markers[k]) + Len(Markers[k]),
           IF k = 6 THEN Len(s) ELSE Find(s, Markers[k + 1]) - 1)

SectionsOf(r) == <<r.brief, r.decisions_required, r.drafts, r.followups, r.risks, r.next_actions>>

Parsed == synth.status = 200 /\ model_reply.kind = "text"

RawText == ResponseText(model_reply)

\* C2 as stated: with the six markers in order each of the five sections is
\* exactly the text between its marker and the next; with no marker the
\* five sections are empty and brief is the whole text.
C2_SectionsExact ==
    Parsed =>
       /\ AllInOrder(RawText)
          => \A k \in 2..6 : SectionsOf(synth)[k] = Between(RawText, k)
       /\ NoMarker(RawText)
          => /\ \A k \in 2..6 : SectionsOf(synth)[k] = <<>>
             /\ synth.brief = RawText

\* C2 amended: with the six markers in order each of the five sections is
\* the text between its marker and the next with the whitespace at both
\* ends removed; with no marker the five sections are empty and brief is the
\* whole text.
C2_SectionsTrimmed ==
    Parsed =>
       /\ AllInOrder(RawText)
          => \A k \in 2..6 : SectionsOf(synth)[k] = Strip(Between(RawText, k))
       /\ NoMarker(RawText)
          => /\ \A k \in 2..6 : SectionsOf(synth)[k] = <<>>
             /\ synth.brief = RawText

C2_Witness ==
    /\ Parsed
    /\ AllInOrder(RawText)
    /\ synth.drafts = <<"a", ":", " ", "b">>
    /\ synth.risks = <<"a">>
    /\ synth.next_actions = <<>>

\* The text after the first BRIEF, up to the first DECISIONS_REQUIRED that
\* follows it
AfterBrief(s) == SplitOnce(SplitOnce(s, MarkBrief)[2], MarkDecisionsWord)[1]

\* t without the colon it starts with, if it starts with one after blanks
DropLeadingColon(t) ==
    IF LStrip(t) # <<>> /\ Head(LStrip(t)) = ":" THEN Tail(LStrip(t)) ELSE t

\* C15: when the answer holds BRIEF and DECISIONS_REQUIRED, brief is (up to
\* the blanks around it) the text after the first BRIEF and before
\* DECISIONS_REQUIRED with nothing removed but a colon it starts with; when
\* one of the two is missing, brief is the whole answer.
C15_BriefKeepsText ==
    Parsed =>
       IF Contains(RawText, MarkBrief) /\ Contains(RawText, MarkDecisionsWord)
       THEN synth.brief = Strip(DropLeadingColon(AfterBrief(RawText)))
       ELSE synth.brief = RawText

----------------------------------------------------------------------------
(* SpecMemory: corrections are posted and read, and briefs are generated   *)
(* from them, in any order.                                                *)

MemoryBodies ==
    {NoBody, ListBody, Obj(NoFields),
     Obj([context |-> "c1", correction |-> "k1"]),
     Obj([context |-> "c1", correction |-> "k1", category |-> "tone"]),
     Obj([context |-> "c2", correction |-> "k2", category |-> "tone"]),
     Obj([context |-> "", correction |-> "k1", category |-> "length"]),
     Obj([context |-> NoneVal, correction |-> "k1", category |-> "tone"])}

MemGet == \E category \in {NoArg, Arg(""), Arg("tone")} : GetLearningMemory(category)

MemPost ==
    /\ NextId(learning_memory) <= MaxMemoryId
    /\ \E body \in MemoryBodies : PostLearningMemory(body)

MemGenerate == \E body \in {NoBody, Obj([date |-> "2024-01-01"])} : GenerateBrief(body)

NextMemory == MemGet \/ MemPost \/ MemGenerate \/ GetProjects

SpecMemory == InitCrud /\ [][NextMemory]_vars

\* The step handled a request of the record store
Handled == <<call, reply>>' # <<call, reply>>

\* C12: in every step each LearningMemory row stays as it is; the table
\* changes only by a POST /api/learning-memory that carries the three keys,
\* which answers 201 and adds exactly one row holding the body's values; a
\* POST with no body or without one of the three keys answers 400 and adds
\* no row.
C12_AppendOnly ==
    [][/\ learning_memory \subseteq learning_memory'
       /\ learning_memory' # learning_memory
          => /\ call'.name = "memory.post"
             /\ ~MemoryRejected(call'.body)
             /\ reply'.status = 201
             /\ \E r \in learning_memory' :
                   /\ r.id \notin Ids(learning_memory)
                   /\ learning_memory' = learning_memory \cup {r}
                   /\ \A k \in MemoryKeys : r[k] = call'.body.fields[k]
       /\ (Handled /\ call'.name = "memory.post" /\ MemoryRejected(call'.body))
          => reply'.status = 400 /\ learning_memory' = learning_memory
       /\ (Handled /\ call'.name = "memory.post" /\ ~MemoryRejected(call'.body)
             /\ MemoryNotNull(call'.body))
          => reply'.status = 201 /\ Cardinality(learning_memory') = Cardinality(learning_memory) + 1
      ]_vars

C12_Witness ==
    /\ call.name = "memory.post"
    /\ reply.status = 400
    /\ Cardinality(learning_memory) = 2
    /\ \E r, q \in learning_memory : r.id # q.id /\ r.category = q.category

----------------------------------------------------------------------------
(* SpecSnapshot: a session gets its token and asks for inbox snapshots of  *)
(* a mailbox, with every outcome of the per-message model calls.           *)

\* A message whose "from" is null: line 307 raises on it
MsgNullFrom == [Msg("m5", <<"U">>, <<"p">>, NoneSeq, "2024-01-01T10:00:00Z") EXCEPT !.from_null = TRUE]

\* A body preview of a blank, PreviewLimit + 1 letters and a last letter
MsgLong ==
    Msg("m6", <<"L">>,
        <<" ">> \o [i \in 1..(PreviewLimit + 1) |-> "x"] \o <<"y">>,
        <<"D">>, "not a time")

SnapMessages == {MsgPlain, MsgBlankSubject, MsgPadded, MsgNullFrom, MsgLong}

\* What generate_content does for one message: a summary, a blank text, a
\* text of two lines, an exception
SnapOutcomes ==
    {TextOutcome(<<"s">>), TextOutcome(<<" ">>), TextOutcome(<<"a", "\n", "b">>), RaiseOutcome}

InitSnapshot ==
    /\ InitProxy
    /\ InitSynth
    /\ hours_arg = NoSeqArg
    /\ mailbox \in SeqsUpTo(SnapMessages, MaxMsgs)

SnapSnapshot ==
    \E up \in {UpOk(mailbox), UpErr(503, "upstream error")} :
        \E outcomes \in [1..Len(up.json) -> SnapOutcomes] :
            InboxSnapshot(hours_arg, up, outcomes)

NextSnapshot == HoursCallback \/ SnapSnapshot

SpecSnapshot == InitSnapshot /\ [][NextSnapshot]_vars

\* The message has a subject that is not empty once trimmed
HasSubject(m) == Strip(OrEmpty(m.subject)) # <<>>

\* The messages of the mailbox that have a subject, in the provider's order
Kept == SelectSeq(mailbox, HasSubject)

\* The number of lines of a text
LineCount(s) == IF s = <<>> THEN 0 ELSE 1 + Cardinality({i \in DOMAIN s : s[i] = "\n"})

\* The digest entry of an item
EntryOf(it) == DigestLine(it.subject, it.summary, it.sender, it.received)

Succeeded == request.endpoint = "snapshot" /\ response.status = 200 /\ response.kind = "snapshot"

\* C13: after a successful snapshot, items holds one record per message with
\* a non-empty trimmed subject, in the provider's order; the digest has one
\* line per item, in that order, built from the item's subject, summary,
\* sender and time; the model was called for those messages and no other.
C13_ItemsAndDigest ==
    Succeeded =>
       /\ Len(response.items) = Len(Kept)
       /\ \A i \in 1..Len(Kept) :
             /\ response.items[i].id = Kept[i].id
             /\ response.items[i].subject = Strip(OrEmpty(Kept[i].subject))
       /\ response.snapshot = JoinLines([i \in 1..Len(response.items) |-> EntryOf(response.items[i])])
       /\ LineCount(response.snapshot) = Len(response.items)
       /\ [i \in 1..Len(model_calls) |-> model_calls[i].id] = [i \in 1..Len(Kept) |-> Kept[i].id]

\* The model call raised, or returned no text or a blank text
ModelFailed(outcome) == outcome.kind = "raise" \/ Strip(OrEmpty(outcome.text)) = <<>>

\* The mail fetch of the snapshot request got the provider's 200
Fetched == request.endpoint = "snapshot" /\ graph.called /\ graph.upstream_status = 200

\* Every message has a sender object the handler can read
SendersOk == \A i \in 1..Len(mailbox) : ~mailbox[i].from_null

\* C14 as stated: once the mail fetch has succeeded the answer is the 200
\* snapshot whatever the model calls did, with one item per message that has
\* a subject, and the summary of a message whose model call failed is the
\* first 160 characters of its body preview, trimmed.
C14_FallbackRawPreview ==
    (Fetched /\ SendersOk) =>
       /\ Succeeded
       /\ Len(response.items) = Len(Kept)
       /\ Len(model_calls) = Len(Kept)
       /\ \A i \in 1..Len(Kept) :
             ModelFailed(model_calls[i].outcome)
             => response.items[i].summary =
                   Strip(Prefix(OrEmpty(Kept[i].bodyPreview), PreviewLimit))

\* C14 amended: the same, where the summary of a message whose model call
\* failed is the first 160 characters, trimmed, of its body preview after
\* that preview was trimmed and its line breaks were replaced by blanks.
C14_FallbackCleanPreview ==
    (Fetched /\ SendersOk) =>
       /\ Succeeded
       /\ Len(response.items) = Len(Kept)
       /\ Len(model_calls) = Len(Kept)
       /\ \A i \in 1..Len(Kept) :
             ModelFailed(model_calls[i].outcome)
             => response.items[i].summary =
                   Strip(Prefix(ReplaceNewlines(Strip(OrEmpty(Kept[i].bodyPreview))),
                                PreviewLimit))

C14_Witness ==
    /\ Fetched
    /\ Succeeded
    /\ Len(response.items) = 2
    /\ model_calls[1].outcome = RaiseOutcome
    /\ response.items[1].summary = <<"p", " ", "q">>
    /\ response.items[2].summary = <<"s">>

----------------------------------------------------------------------------
(* SpecOAuth: one session goes through /api/outlook/auth, the callback and *)
(* the status endpoint in any order, with every shape of callback.         *)

InitOAuth ==
    /\ InitProxy
    /\ InitSynth
    /\ hours_arg = NoSeqArg
    /\ mailbox = <<>>

OAuthCallback == \E args \in CallbackArgs, result \in TokenResults : Callback(args, result)

NextOAuth == ProxyAuth \/ OAuthCallback \/ OutlookStatus

SpecOAuth == InitOAuth /\ [][NextOAuth]_vars

\* The callback of the step carries the state an earlier /api/outlook/auth
\* stored in the session, carries no error, and its code was exchanged for
\* an access token.
ProperCallback ==
    /\ session.state.present
    /\ request'.args.state = session.state
    /\ ~request'.args.has_error
    /\ request'.args.code.present
    /\ request'.result.access_token # ""

\* C16: the session's token changes only in a callback that carries the
\* state stored by an earlier /api/outlook/auth, no error, and a code that
\* was exchanged for an access token; every other callback answers 400 and
\* leaves the token as it was.
C16_TokenOnlyAfterAuth ==
    [][/\ session'.ms_graph_token # session.ms_graph_token
          => request'.endpoint = "callback" /\ ProperCallback
       /\ (request'.endpoint = "callback" /\ ~ProperCallback)
          => /\ response'.status = 400
             /\ session'.ms_graph_token = session.ms_graph_token
      ]_vars

====
